---- MODULE Spec2Model ----
(***************************************************************************)
(* Frame extraction, selection and export of folio_magic.                  *)
(*                                                                         *)
(* The repository holds three variants of the same React component App:    *)
(*   "index"  src/index.tsx                 (no seek timeout, no step      *)
(*            ceiling, effect cleanup keyed on [frames])                   *)
(*   "rate"   src/unnamed/part_000:1-903    (framepSecond, MAX_LOOPS 600)  *)
(*   "fixed"  src/unnamed/part_000:905-1531 (MAX_LOOPS 60)                 *)
(* `variant` is fixed by Init; every action follows the code of that       *)
(* variant.                                                                *)
(*                                                                         *)
(* Time is exact, in ticks of 1/600000 s (Second ticks make one second), so *)
(* that 1/framepSecond, duration/600, duration/30 and duration/10 are      *)
(* whole numbers for the videos and rates the model draws.  IEEE rounding  *)
(* of the JavaScript doubles is not modelled.                              *)
(***************************************************************************)
EXTENDS Integers, Sequences, FiniteSets, TLC

VARIABLES
  variant,        \* which App the page runs
  library,        \* the video files the user can upload (environment)
  videoFile,      \* useState<File | null>
  isProcessing,   \* useState(false)
  progress,       \* useState(0)
  frames,         \* useState<PortfolioFrame[]>([])
  isZipping,      \* useState(false)
  expandedFrame,  \* useState<PortfolioFrame | null>(null), rate and fixed
  framepSecond,   \* useState(1), rate
  onDropRate,     \* framepSecond seen by the processVideo that onDrop memoized
  framesRef,      \* framesRef.current, rate and fixed
  runs,           \* the activations of processVideo, in start order
  rerunTimers,    \* pending setTimeout(..., 100) callbacks of deleteFrame
  revoked,        \* object URLs passed to URL.revokeObjectURL at least once
  revokedTwice,   \* object URLs passed to URL.revokeObjectURL more than once
  leaked,         \* frame URLs that left the collection without being revoked
  committedBy,    \* the run whose newFrames setFrames committed last (0: none)
  lastDelete,     \* what the last deleteFrame call did (observer)
  archive,        \* the JSZip of handleDownload and what became of it
  lastSelect      \* what the last toggle or selectAll did (observer)

vars == <<variant, library, videoFile, isProcessing, progress, frames, isZipping,
          expandedFrame, framepSecond, onDropRate, framesRef, runs, rerunTimers,
          revoked, revokedTwice, leaked, committedBy, lastDelete, archive,
          lastSelect>>

-----------------------------------------------------------------------------
(* Bounds of the model *)

\* uploads in one page session
MaxRuns == 3

-----------------------------------------------------------------------------
(* Numbers *)

Second == 600 * 1000

\* Number.POSITIVE_INFINITY and NaN as reported by video.duration
Infinity == 2 ^ 30
NaN == 0 - (2 ^ 30)

Min(a, b) == IF a <= b THEN a ELSE b
Max(a, b) == IF a >= b THEN a ELSE b

\* a + b and a / n on doubles: Infinity absorbs
Plus(a, b) == IF a = Infinity \/ b = Infinity THEN Infinity ELSE a + b
DivBy(a, n) == IF a = Infinity THEN Infinity ELSE a \div n

\* Math.round(100 * a / b) for a >= 0, b > 0: nearest integer, halves up,
\* that is (200 * a + b) \div (2 * b); reduced by 200 where b allows it, to
\* stay within the checker's 32-bit integers
RoundPercent(a, b) ==
  IF b = Infinity THEN 0
  ELSE IF b % 200 = 0 THEN (a + (b \div 200)) \div (b \div 100)
  ELSE (200 * a + b) \div (2 * b)

\* Number.prototype.toFixed(2): the time in hundredths of a second, nearest
toFixed2(t) == (t + (Second \div 200)) \div (Second \div 100)

Variants == {"index", "rate", "fixed"}

NoFrame == [id |-> -1, url |-> <<0, 0>>, blob |-> <<0, 0>>,
            selected |-> FALSE, timestamp |-> -1]
NoFile == [duration |-> 0, decoder |-> "none"]

\* the observers of deleteFrame and of the selection handlers, before any
\* call in the session
NoDelete ==
  [present |-> FALSE, removed |-> 0, revocations |-> 0, emptied |-> FALSE,
   left |-> 0, focused |-> FALSE, focusLive |-> TRUE,
   focusBefore |-> NoFrame.url, focusAfter |-> NoFrame.url,
   following |-> NoFrame.url, preceding |-> NoFrame.url]
NoSelect == [kind |-> "none", known |-> FALSE, flipped |-> 0, intact |-> TRUE]

\* no export started: an empty JSZip, nothing pending, nothing handed out
NoArchive ==
  [entries |-> <<>>, source |-> <<>>, pending |-> 0, outcome |-> "none",
   urlCreated |-> FALSE, clicked |-> FALSE, reported |-> FALSE]

-----------------------------------------------------------------------------
(* Interval planning of processVideo *)

targetFrameCount == 30
maxFrameCount == 600
MAX_LOOPS_rate == 600
MAX_LOOPS_fixed == 60

\* the smallest spacing, in ticks: 0.5 s (index), 0.1 s (rate, fixed)
MinSpacing(v) == IF v = "index" THEN Second \div 2 ELSE Second \div 10

\* duration the run plans with, from video.duration
PlanDuration(v, reported) ==
  IF v = "index"
    THEN \* video.duration || 1 : 0 and NaN are falsy
         IF reported = 0 \/ reported = NaN THEN Second ELSE reported
    ELSE \* !Number.isFinite(duration) || duration <= 0
         IF reported = NaN \/ reported = Infinity \/ reported <= 0
           THEN Second ELSE reported

\* 1 / framepSecond in ticks (framepSecond a nonzero integer)
RatePeriod(rate) ==
  IF rate > 0 THEN Second \div rate ELSE 0 - (Second \div (0 - rate))

IntervalDropMax(v, duration, rate) ==
  IF v = "rate" /\ rate # 0
    THEN RatePeriod(rate)
    ELSE MinSpacing(v)

\* an interval rule with twice the hard ceiling in the rate branch
IntervalHalfCeiling(v, duration, rate) ==
  IF v = "rate" /\ rate # 0
    THEN Max(RatePeriod(rate), DivBy(duration, 2 * maxFrameCount))
    ELSE Max(MinSpacing(v), DivBy(duration, targetFrameCount))

\* interval between target timestamps
Interval(v, duration, rate) ==
  IF v = "rate" /\ rate # 0
    THEN \* framepSecond > 0 || framepSecond: every nonzero number
         Max(RatePeriod(rate), DivBy(duration, maxFrameCount))
    ELSE Max(MinSpacing(v), DivBy(duration, targetFrameCount))

\* first target timestamp
StartOffset(v, duration) ==
  IF v = "index"
    THEN Min(Second \div 2, DivBy(duration, 2))
    ELSE Min(Second \div 10, DivBy(duration, 10))

MaxLoops(v) == IF v = "rate" THEN MAX_LOOPS_rate ELSE MAX_LOOPS_fixed

LoopGuardInclusive(v, currentTime, duration, loopCount) ==
  /\ currentTime <= duration
  /\ v # "index" => loopCount < MaxLoops(v)

\* the while condition of the sampling loop
LoopGuard(v, currentTime, duration, loopCount) ==
  /\ currentTime < duration
  /\ v # "index" => loopCount < MaxLoops(v)

\* progress as the share of the video still ahead
StepProgressRemaining(v, currentTime, duration, loopCount) ==
  Min(99, RoundPercent(duration - currentTime, duration))

\* the value handed to setProgress at the head of a step (loopCount counted)
StepProgress(v, currentTime, duration, loopCount) ==
  IF v = "index"
    THEN Min(99, RoundPercent(currentTime, duration))
    ELSE Min(99, Max(RoundPercent(currentTime, duration),
                     RoundPercent(loopCount, MaxLoops(v))))

-----------------------------------------------------------------------------
(* The decode source.  A file's decoder says which events the browser may   *)
(* deliver for it: "healthy" metadata and a prompt seeked with data for     *)
(* every seek; "stalled" metadata and then nothing; "flaky" metadata or an  *)
(* error or nothing, no canvas context, for a seek seeked with data or an   *)
(* error or nothing, throws of drawImage, toBlob without a payload;         *)
(* "erratic" metadata, and for a seek seeked in time, late or never, with   *)
(* data or without.                                                         *)

Decoders == {"flaky", "healthy", "stalled", "erratic"}

File(d, dec) == [duration |-> d, decoder |-> dec]

-----------------------------------------------------------------------------
(* Frames and object URLs *)

FrameUrls(fs) == {fs[i].url : i \in DOMAIN fs}

\* frames.filter(f => f.id !== id)
RECURSIVE FilterOut(_, _)
FilterOut(fs, id) ==
  IF fs = <<>> THEN <<>>
  ELSE IF Head(fs).id = id THEN FilterOut(Tail(fs), id)
       ELSE <<Head(fs)>> \o FilterOut(Tail(fs), id)

\* frames.findIndex(f => f.id === id), 1-based; 0 when absent
FindIndex(fs, id) ==
  IF \E i \in DOMAIN fs : fs[i].id = id
    THEN CHOOSE i \in DOMAIN fs :
           fs[i].id = id /\ \A j \in 1..(i - 1) : fs[j].id # id
    ELSE 0

\* frames.map(f => f.id === id ? {...f, selected: !f.selected} : f)
ToggleIn(fs, id) ==
  [i \in DOMAIN fs |->
     IF fs[i].id = id THEN [fs[i] EXCEPT !.selected = ~@] ELSE fs[i]]

\* frames.map(f => ({...f, selected: select}))
SelectIn(fs, select) == [i \in DOMAIN fs |-> [fs[i] EXCEPT !.selected = select]]

\* the PortfolioFrame pushed by a step; the default selection differs
NewFrame(v, r, rec) ==
  [id |-> toFixed2(rec.currentTime),
   url |-> <<r, rec.loopCount>>,
   blob |-> <<r, rec.loopCount>>,
   selected |-> (v # "rate"),
   timestamp |-> rec.currentTime]

\* setFrames(new) by a handler that itself revokes the URLs `byHandler`:
\* the new collection, the ref effect (rate, fixed), the cleanup of the
\* effect keyed on [frames] (index), and the URL registry after both.
SetFrames(new, byHandler) ==
  LET cleanup == IF variant = "index" THEN FrameUrls(frames) ELSE {}
      r1 == revoked \cup byHandler
      t1 == revokedTwice \cup (byHandler \cap revoked)
      r2 == r1 \cup cleanup
      t2 == t1 \cup (cleanup \cap r1)
  IN /\ frames' = new
     /\ framesRef' = IF variant = "index" THEN framesRef ELSE new
     /\ revoked' = r2
     /\ revokedTwice' = t2
     /\ leaked' = leaked \cup ((FrameUrls(frames) \ FrameUrls(new)) \ r2)

-----------------------------------------------------------------------------
(* processVideo *)

\* srcRevoked counts URL.revokeObjectURL(video.src); attached: the video
\* element is in the document (only rate appends it)
NewRun(f, rate) ==
  [pc |-> "loading", status |-> "running", file |-> f, rate |-> rate,
   duration |-> 0, interval |-> 0, currentTime |-> 0, loopCount |-> 0,
   newFrames |-> <<>>, timeoutArmed |-> FALSE, seekedFired |-> FALSE,
   polling |-> FALSE, settle |-> 0, waitEnd |-> "none", waitTime |-> -1,
   progress |-> 0, stalePolls |-> 0, staleSeek |-> FALSE,
   staleWait |-> FALSE, srcRevoked |-> 0, attached |-> (variant = "rate")]

\* a finished activation keeps what the claims read of it; its last
\* setProgress is the 100 of the finally block, unless the metadata wait
\* failed and it returned before.  Both returns detach the video element;
\* the finally block alone revokes the URL of video.src.
DoneRun(rec, status) ==
  [NewRun(rec.file, rec.rate) EXCEPT
     !.pc = "done", !.status = status, !.duration = rec.duration,
     !.progress = IF status = "failed" THEN rec.progress ELSE 100,
     !.stalePolls = rec.stalePolls,
     !.attached = FALSE,
     !.srcRevoked = IF status = "failed" THEN rec.srcRevoked
                    ELSE rec.srcRevoked + 1,
     !.interval = IF status = "aborted" THEN rec.interval ELSE 0,
     !.currentTime = IF status = "aborted" THEN rec.currentTime ELSE 0,
     !.loopCount = IF status = "aborted" THEN rec.loopCount ELSE 0]

Active(r) == r \in DOMAIN runs /\ runs[r].pc # "done"

\* once a later upload starts, of the activations that have returned only
\* that they did and their last setProgress is kept
PastRuns(rs) ==
  [r \in DOMAIN rs |->
     IF rs[r].pc = "done"
       THEN [NewRun(NoFile, 0) EXCEPT !.pc = "done", !.status = "past",
                                      !.progress = rs[r].progress,
                                      !.attached = rs[r].attached,
                                      !.srcRevoked = rs[r].srcRevoked]
       ELSE rs[r]]

\* the views App renders
UploadView == videoFile = NoFile /\ ~isProcessing /\ frames = <<>>
ProcessingView == ~UploadView /\ isProcessing
GalleryView == ~UploadView /\ ~isProcessing
LightboxOpen == variant # "index" /\ GalleryView /\ expandedFrame # NoFrame
\* header and grid are under the lightbox overlay while it is open
GalleryControls == GalleryView /\ ~LightboxOpen

\* processVideo up to its first await
StartRun(f, rate) ==
  /\ Len(runs) < MaxRuns
  /\ videoFile' = f
  /\ isProcessing' = TRUE
  /\ progress' = 0
  /\ SetFrames(<<>>, {})
  /\ runs' = Append(PastRuns(runs), NewRun(f, rate))
  /\ lastDelete' = NoDelete
  /\ lastSelect' = NoSelect
  /\ archive' = IF archive.pending > 0 THEN archive ELSE NoArchive
  /\ UNCHANGED <<variant, library, isZipping, expandedFrame, framepSecond,
                 onDropRate, rerunTimers, committedBy>>

onDrop ==
  /\ UploadView
  /\ \E f \in library : StartRun(f, onDropRate)

onFileSelect ==
  /\ UploadView
  /\ \E f \in library : StartRun(f, framepSecond)

\* the finally block: release the decode resources, commit, report 100
Finally(r, rec, status) ==
  /\ runs' = [runs EXCEPT ![r] = DoneRun(rec, status)]
  /\ SetFrames(rec.newFrames, {})
  /\ isProcessing' = FALSE
  /\ progress' = 100
  /\ committedBy' = r
  /\ UNCHANGED <<variant, library, videoFile, isZipping, expandedFrame,
                 framepSecond, onDropRate, rerunTimers, lastDelete, archive,
                 lastSelect>>

\* the while condition, then either the head of the next step (count it,
\* report progress, seek, arm the wait) or the finally block
Advance(r, rec) ==
  IF LoopGuard(variant, rec.currentTime, rec.duration, rec.loopCount)
    THEN /\ runs' = [runs EXCEPT ![r] =
                       [rec EXCEPT !.pc = "seekWait",
                                   !.loopCount = @ + 1,
                                   !.progress =
                                     StepProgress(variant, rec.currentTime,
                                                  rec.duration,
                                                  rec.loopCount + 1),
                                   !.timeoutArmed = (variant # "index"),
                                   !.staleWait = FALSE,
                                   !.seekedFired = FALSE,
                                   !.polling = FALSE,
                                   !.settle = 0]]
         /\ progress' = StepProgress(variant, rec.currentTime, rec.duration,
                                     rec.loopCount + 1)
         /\ UNCHANGED <<variant, library, videoFile, isProcessing, frames,
                        isZipping, expandedFrame, framepSecond, onDropRate,
                        framesRef, rerunTimers, revoked, revokedTwice, leaked,
                        committedBy, lastDelete, archive, lastSelect>>
    ELSE Finally(r, rec, "complete")

\* the metadata wait rejected: alert, setIsProcessing(false), return
LoadFailed(r) ==
  /\ runs' = [runs EXCEPT ![r] = DoneRun(runs[r], "failed")]
  /\ isProcessing' = FALSE
  /\ UNCHANGED <<variant, library, videoFile, progress, frames, isZipping,
                 expandedFrame, framepSecond, onDropRate, framesRef,
                 rerunTimers, revoked, revokedTwice, leaked, committedBy,
                 lastDelete, archive, lastSelect>>

\* video.onerror during the metadata wait
MetadataError(r) ==
  /\ Active(r) /\ runs[r].pc = "loading"
  /\ runs[r].file.decoder = "flaky"
  /\ LoadFailed(r)

\* the 10 s timer of the metadata wait
MetadataTimeout(r) ==
  /\ Active(r) /\ runs[r].pc = "loading"
  /\ runs[r].file.decoder = "flaky"
  /\ LoadFailed(r)

\* video.onloadedmetadata: plan, create the canvas, enter the loop
LoadedMetadata(r) ==
  /\ Active(r) /\ runs[r].pc = "loading"
  /\ LET duration == PlanDuration(variant, runs[r].file.duration)
         rec == [runs[r] EXCEPT
                   !.duration = duration,
                   !.interval = Interval(variant, duration, runs[r].rate),
                   !.currentTime = StartOffset(variant, duration)]
     IN \E ctx \in IF runs[r].file.decoder = "flaky" THEN BOOLEAN ELSE {TRUE} :
          IF ctx THEN Advance(r, rec) ELSE LoadFailed(r)

\* the seek wait of the current step is over: the promise is settled,
\* ctx.drawImage runs and canvas.toBlob is called.  A throw of either lands
\* in the catch around the while loop.  Nothing cancels a setTimeout(onSeeked,
\* 50) that is pending: it becomes a stale poll; and a seek the timeout gave
\* up on is still under way (staleSeek, of the latest step only).
Rasterize(r, how) ==
  LET rec == [runs[r] EXCEPT !.timeoutArmed = FALSE, !.seekedFired = FALSE,
                             !.polling = FALSE, !.settle = 0,
                             !.waitEnd = how, !.waitTime = runs[r].currentTime,
                             !.stalePolls = IF runs[r].polling THEN @ + 1 ELSE @,
                             !.staleSeek = /\ how = "timeout"
                                           /\ ~runs[r].seekedFired
                                           /\ runs[r].file.decoder = "erratic"]
  IN \E throws \in IF rec.file.decoder = "flaky" THEN BOOLEAN ELSE {FALSE} :
       IF throws
         THEN Finally(r, rec, "aborted")
         ELSE /\ runs' = [runs EXCEPT ![r] = [rec EXCEPT !.pc = "encodeWait"]]
              /\ UNCHANGED <<variant, library, videoFile, isProcessing,
                             progress, frames, isZipping, expandedFrame,
                             framepSecond, onDropRate, framesRef, rerunTimers,
                             revoked, revokedTwice, leaked, committedBy,
                             lastDelete, archive, lastSelect>>

WaitUnchanged ==
  UNCHANGED <<variant, library, videoFile, isProcessing, progress, frames,
              isZipping, expandedFrame, framepSecond, onDropRate, framesRef,
              rerunTimers, revoked, revokedTwice, leaked, committedBy,
              lastDelete, archive, lastSelect>>

\* onSeeked of the rate variant: with data (readyState >= 2) clear the
\* timeout and start the double requestAnimationFrame, else poll in 50 ms
AfterSeeked(rec, ready) ==
  IF ready
    THEN [rec EXCEPT !.seekedFired = TRUE, !.polling = FALSE,
                     !.timeoutArmed = FALSE, !.settle = 1]
    ELSE [rec EXCEPT !.seekedFired = TRUE, !.polling = TRUE]

onSeeked(r, ready) ==
  /\ runs' = [runs EXCEPT ![r] = AfterSeeked(runs[r], ready)]
  /\ WaitUnchanged

\* the decoder fires seeked for the seek of the current step
Seeked(r) ==
  /\ Active(r) /\ runs[r].pc = "seekWait"
  /\ ~runs[r].seekedFired
  /\ runs[r].file.decoder # "stalled"
  /\ CASE variant = "index" ->
            \* requestAnimationFrame(() => resolve(null))
            /\ runs' = [runs EXCEPT ![r] =
                          [runs[r] EXCEPT !.seekedFired = TRUE, !.settle = 2]]
            /\ WaitUnchanged
       [] variant = "fixed" -> onSeeked(r, TRUE)
       [] variant = "rate" ->
            \E ready \in IF runs[r].file.decoder = "erratic"
                           THEN BOOLEAN ELSE {TRUE} : onSeeked(r, ready)

\* setTimeout(onSeeked, 50) fires
PollTick(r) ==
  /\ Active(r) /\ runs[r].pc = "seekWait"
  /\ runs[r].polling
  /\ \E ready \in BOOLEAN : onSeeked(r, ready)

\* a setTimeout(onSeeked, 50) of a step whose wait is over fires, during a
\* later step or after the run: with data it clears a timer that is gone and
\* resolves a settled promise, without data it polls on
StalePollTick(r) ==
  /\ r \in DOMAIN runs
  /\ runs[r].stalePolls > 0
  /\ \E ready \in BOOLEAN :
       runs' = [runs EXCEPT ![r].stalePolls = IF ready THEN @ - 1 ELSE @]
  /\ WaitUnchanged

\* seeked fires for the seek of the step before, which its wait gave up on.
\* During toBlob video.onseeked still is that step's handler: nothing comes
\* of it, but a poll when there is no data.  Once the next step has assigned
\* video.onseeked it is this step's handler that runs.  (A second seeked
\* within one step changes nothing that is tracked here.)
StaleSeeked(r) ==
  /\ Active(r) /\ runs[r].staleSeek
  /\ variant # "index"
  /\ \E ready \in IF variant = "rate" THEN BOOLEAN ELSE {TRUE} :
       CASE runs[r].pc = "encodeWait" ->
              runs' = [runs EXCEPT ![r] =
                         [runs[r] EXCEPT
                            !.staleSeek = FALSE,
                            !.stalePolls = IF ready THEN @ ELSE @ + 1]]
         [] runs[r].pc = "seekWait" /\ ~runs[r].seekedFired ->
              runs' = [runs EXCEPT ![r] =
                         [AfterSeeked(runs[r], ready) EXCEPT
                            !.staleSeek = FALSE, !.staleWait = TRUE]]
         [] OTHER -> FALSE
  /\ WaitUnchanged

\* a requestAnimationFrame callback of the settle delay runs
AnimationFrame(r) ==
  /\ Active(r) /\ runs[r].pc = "seekWait"
  /\ runs[r].settle > 0
  /\ IF runs[r].settle = 1
       THEN /\ runs' = [runs EXCEPT ![r] = [runs[r] EXCEPT !.settle = 2]]
            /\ WaitUnchanged
       ELSE Rasterize(r, "ready")

\* the 2 s timer of the step fires: warn "skipping", resolve(null)
SeekTimeout(r) ==
  /\ Active(r) /\ runs[r].pc = "seekWait"
  /\ runs[r].timeoutArmed
  /\ runs[r].file.decoder # "healthy"
  /\ Rasterize(r, "timeout")

\* video.onerror during the seek wait (rate, fixed): clearTimeout, reject,
\* caught by the try around the wait.  In index video.onerror still is the
\* settled metadata promise's reject: nothing happens.
SeekError(r) ==
  /\ Active(r) /\ runs[r].pc = "seekWait"
  /\ variant # "index"
  /\ runs[r].file.decoder = "flaky"
  /\ Rasterize(r, "error")

\* the toBlob callback: push the frame when there is a payload, advance
BlobReady(r) ==
  /\ Active(r) /\ runs[r].pc = "encodeWait"
  /\ \E blob \in IF runs[r].file.decoder = "flaky" THEN BOOLEAN ELSE {TRUE} :
       LET pushed == IF blob
                       THEN Append(runs[r].newFrames,
                                   NewFrame(variant, r, runs[r]))
                       ELSE runs[r].newFrames
           rec == [runs[r] EXCEPT
                     !.newFrames = pushed,
                     !.currentTime = Plus(@, runs[r].interval)]
       IN Advance(r, rec)

-----------------------------------------------------------------------------
(* Selection and lifecycle handlers *)

FrameIds(fs) == {fs[i].id : i \in DOMAIN fs}

\* where a click can name a frame: its grid cell, or the open lightbox
GridTarget(id) == GalleryControls /\ id \in FrameIds(frames)
LightboxTarget(id) == LightboxOpen /\ id = expandedFrame.id

\* what a selection handler did to the collection: how many Frames had
\* their flag flipped, and whether all else (order, membership, blobs,
\* display handles) is as it was
Observed(kind, known, before, after) ==
  [kind |-> kind,
   known |-> known,
   flipped |-> IF Len(after) = Len(before)
                 THEN Cardinality({i \in DOMAIN before :
                                     after[i].selected # before[i].selected})
                 ELSE 0,
   intact |-> /\ Len(after) = Len(before)
              /\ \A i \in DOMAIN before :
                   after[i] = [before[i] EXCEPT !.selected = after[i].selected]]

toggleFrameSelection(id) ==
  /\ IF variant = "index"
       THEN GridTarget(id) /\ ~isZipping
       ELSE GridTarget(id) \/ LightboxTarget(id)
  /\ SetFrames(ToggleIn(frames, id), {})
  /\ expandedFrame' =
       IF variant # "index" /\ expandedFrame # NoFrame /\ expandedFrame.id = id
         THEN [expandedFrame EXCEPT !.selected = ~@]
         ELSE expandedFrame
  /\ lastSelect' = Observed("toggle", id \in FrameIds(frames), frames,
                            ToggleIn(frames, id))
  /\ UNCHANGED <<variant, library, videoFile, isProcessing, progress,
                 isZipping, framepSecond, onDropRate, runs, rerunTimers,
                 committedBy, lastDelete, archive>>

\* frames[frameIndex + 1] || frames[frameIndex - 1] || null
NextFrameToShow(fs, id) ==
  LET idx == FindIndex(fs, id)
  IN IF idx + 1 \in DOMAIN fs THEN fs[idx + 1]
     ELSE IF idx - 1 \in DOMAIN fs THEN fs[idx - 1]
     ELSE NoFrame

\* the URL deleteFrame revokes: that of frames.find(f => f.id === id)
DeletedUrl(fs, id) ==
  IF FindIndex(fs, id) = 0 THEN {} ELSE {fs[FindIndex(fs, id)].url}

\* where the Frame with this display handle stands in fs; 0 when absent
FindUrl(fs, url) ==
  IF \E i \in DOMAIN fs : fs[i].url = url
    THEN CHOOSE i \in DOMAIN fs : fs[i].url = url
    ELSE 0

\* what a deleteFrame call did: Frames removed, handles revoked, whether it
\* emptied the collection, and the focus before and after it beside the
\* Frames that stood after and before the focused one (by display handle;
\* focusLive: the focused Frame is one of the collection)
DeleteObserved(id, newFrames, focusAfter) ==
  LET pos == FindUrl(frames, expandedFrame.url)
  IN [present |-> id \in FrameIds(frames),
      removed |-> Len(frames) - Len(newFrames),
      revocations |-> Cardinality(DeletedUrl(frames, id))
                      + IF variant = "index"
                          THEN Cardinality(FrameUrls(frames)) ELSE 0,
      emptied |-> id \in FrameIds(frames) /\ newFrames = <<>>,
      left |-> Len(newFrames),
      focused |-> expandedFrame # NoFrame /\ expandedFrame.id = id,
      focusLive |-> expandedFrame = NoFrame \/ pos # 0,
      focusBefore |-> expandedFrame.url,
      focusAfter |-> focusAfter.url,
      following |-> IF pos # 0 /\ pos < Len(frames)
                      THEN frames[pos + 1].url ELSE NoFrame.url,
      preceding |-> IF pos > 1 THEN frames[pos - 1].url ELSE NoFrame.url]

deleteFrame(id) ==
  LET newFrames == FilterOut(frames, id)
      exhausted == variant # "index" /\ newFrames = <<>>
  IN /\ IF variant = "index"
          THEN GridTarget(id) /\ ~isZipping
          ELSE (GridTarget(id) /\ ~isZipping) \/ LightboxTarget(id)
     /\ SetFrames(newFrames, DeletedUrl(frames, id))
     /\ expandedFrame' =
          IF variant = "index" THEN expandedFrame
          ELSE IF exhausted THEN NoFrame
          ELSE IF expandedFrame # NoFrame /\ expandedFrame.id = id
                 THEN NextFrameToShow(frames, id)
          ELSE expandedFrame
     /\ rerunTimers' = IF exhausted THEN rerunTimers + 1 ELSE rerunTimers
     /\ lastDelete' = DeleteObserved(id, newFrames, expandedFrame')
     /\ UNCHANGED <<variant, library, videoFile, isProcessing, progress,
                    isZipping, framepSecond, onDropRate, runs, committedBy,
                    archive, lastSelect>>

\* the header button: selectAll(frames.some(f => !f.selected))
selectAll ==
  LET select == \E i \in DOMAIN frames : ~frames[i].selected
  IN /\ GalleryControls /\ ~isZipping
     /\ SetFrames(SelectIn(frames, select), {})
     /\ lastSelect' = Observed("selectAll", TRUE, frames,
                               SelectIn(frames, select))
     /\ UNCHANGED <<variant, library, videoFile, isProcessing, progress,
                    isZipping, expandedFrame, framepSecond, onDropRate, runs,
                    rerunTimers, committedBy, lastDelete, archive>>

\* the body of handleRerun: index reads frames, rate and fixed framesRef.
\* The observers start afresh with the session, here and in StartRun.
Rerun ==
  /\ SetFrames(<<>>, FrameUrls(IF variant = "index" THEN frames ELSE framesRef))
  /\ videoFile' = NoFile
  /\ progress' = 0
  /\ isProcessing' = FALSE
  /\ lastDelete' = NoDelete
  /\ lastSelect' = NoSelect
  /\ UNCHANGED <<variant, library, isZipping, expandedFrame, framepSecond,
                 onDropRate, runs, committedBy, archive>>

\* the Start Over button
handleRerun ==
  /\ GalleryControls /\ ~isZipping
  /\ Rerun
  /\ UNCHANGED rerunTimers

\* the callback deleteFrame scheduled 100 ms ago: alert, handleRerun()
RerunTimer ==
  /\ rerunTimers > 0
  /\ Rerun
  /\ rerunTimers' = rerunTimers - 1

UiUnchanged ==
  UNCHANGED <<variant, library, videoFile, isProcessing, progress, frames,
              framesRef, runs, rerunTimers, revoked, revokedTwice, leaked,
              committedBy, lastDelete, lastSelect>>

\* characters of an entry name, by character code
Zero == 48
Dot == 46

\* n.toString(): the decimal digits of n >= 0
RECURSIVE NumberToString(_)
NumberToString(n) ==
  IF n < 10 THEN <<Zero + n>>
  ELSE NumberToString(n \div 10) \o <<Zero + (n % 10)>>

\* str.padStart(2, '0')
PadStart2(str) == IF Len(str) < 2 THEN <<Zero>> \o str ELSE str

\* `portfolio_shot_${indexStr}.jpg` for i + 1 = index: the part of the name
\* that varies, indexStr and the dot that ends it
EntryName(index) == PadStart2(NumberToString(index)) \o <<Dot>>

\* frames.filter(f => f.selected)
SelectedFrames(fs) == SelectSeq(fs, LAMBDA f : f.selected)

\* an archive of every Frame, selected or not
ZipEntriesAll(fs) ==
  [i \in DOMAIN fs |-> [name |-> EntryName(i), blob |-> fs[i].blob]]

\* selectedFrames.forEach((frame, i) => zip.file(name, frame.blob))
ZipEntries(fs) ==
  LET selectedFrames == SelectedFrames(fs)
  IN [i \in DOMAIN selectedFrames |->
        [name |-> EntryName(i), blob |-> selectedFrames[i].blob]]

\* what settles an export, were the catch block to hand out an archive too
ArchiveSettledExposed(a, ok) ==
  [a EXCEPT !.entries = <<>>, !.source = <<>>, !.pending = @ - 1,
            !.outcome = IF ok THEN "downloaded" ELSE "failed",
            !.urlCreated = TRUE, !.clicked = TRUE, !.reported = ~ok]

\* generateAsync resolved (ok): createObjectURL(content), a.click(),
\* revokeObjectURL; or it rejected: console.error, alert(errZip)
ArchiveSettled(a, ok) ==
  [a EXCEPT !.entries = <<>>, !.source = <<>>, !.pending = @ - 1,
            !.outcome = IF ok THEN "downloaded" ELSE "failed",
            !.urlCreated = ok, !.clicked = ok, !.reported = ~ok]

\* handleDownload up to zip.generateAsync; `source` remembers the collection
\* the entries were made from
handleDownload ==
  /\ GalleryControls /\ ~isZipping
  /\ SelectedFrames(frames) # <<>>
  /\ isZipping' = TRUE
  /\ archive' = [NoArchive EXCEPT !.entries = ZipEntries(frames),
                                  !.source = frames,
                                  !.pending = archive.pending + 1,
                                  !.outcome = "pending"]
  /\ UNCHANGED <<expandedFrame, framepSecond, onDropRate>>
  /\ UiUnchanged

\* generateAsync settles (archive or error): finally setIsZipping(false)
DownloadSettled ==
  /\ archive.pending > 0
  /\ \E ok \in BOOLEAN : archive' = ArchiveSettled(archive, ok)
  /\ isZipping' = FALSE
  /\ UNCHANGED <<expandedFrame, framepSecond, onDropRate>>
  /\ UiUnchanged

\* a grid cell is clicked: setExpandedFrame(frame)
ExpandFrame(i) ==
  /\ variant # "index"
  /\ GalleryControls /\ ~isZipping
  /\ i \in DOMAIN frames
  /\ expandedFrame' = frames[i]
  /\ UNCHANGED <<isZipping, framepSecond, onDropRate, archive>>
  /\ UiUnchanged

\* the overlay, the close button or Escape: setExpandedFrame(null)
CloseLightbox ==
  /\ LightboxOpen
  /\ expandedFrame' = NoFrame
  /\ UNCHANGED <<isZipping, framepSecond, onDropRate, archive>>
  /\ UiUnchanged

goToPrev ==
  /\ LightboxOpen
  /\ FindIndex(frames, expandedFrame.id) > 1
  /\ expandedFrame' = frames[FindIndex(frames, expandedFrame.id) - 1]
  /\ UNCHANGED <<isZipping, framepSecond, onDropRate, archive>>
  /\ UiUnchanged

goToNext ==
  /\ LightboxOpen
  /\ FindIndex(frames, expandedFrame.id) # 0
  /\ FindIndex(frames, expandedFrame.id) < Len(frames)
  /\ expandedFrame' = frames[FindIndex(frames, expandedFrame.id) + 1]
  /\ UNCHANGED <<isZipping, framepSecond, onDropRate, archive>>
  /\ UiUnchanged

\* the values typed into the Frames per Second input
Rates == {1, 300}

\* the Frames per Second input: setFramepSecond(Number(e.target.value))
setFramepSecond(v) ==
  /\ variant = "rate"
  /\ UploadView
  /\ v # framepSecond
  /\ framepSecond' = v
  /\ UNCHANGED <<isZipping, expandedFrame, onDropRate, archive>>
  /\ UiUnchanged

\* the language select: t changes, so useCallback(..., [t]) memoizes onDrop
\* anew, around the processVideo of this render
setCurrentLang ==
  /\ variant = "rate"
  /\ UploadView \/ GalleryControls
  /\ onDropRate' = framepSecond
  /\ UNCHANGED <<isZipping, expandedFrame, framepSecond, archive>>
  /\ UiUnchanged

-----------------------------------------------------------------------------
(* The specifications *)

\* the videos of the page session: runs of at most two sampling steps
ShortVideos(v) ==
  CASE v = "index" -> {File((3 * Second) \div 2, "flaky")}
    [] v = "fixed" -> {File(Second \div 5, "flaky")}
    [] v = "rate" -> {File(Second \div 200, "flaky")}

InitWith(videos) ==
  /\ variant \in Variants
  /\ library = videos
  /\ videoFile = NoFile
  /\ isProcessing = FALSE
  /\ progress = 0
  /\ frames = <<>>
  /\ isZipping = FALSE
  /\ expandedFrame = NoFrame
  /\ framepSecond = 1
  /\ onDropRate = 1
  /\ framesRef = <<>>
  /\ runs = <<>>
  /\ rerunTimers = 0
  /\ revoked = {}
  /\ revokedTwice = {}
  /\ leaked = {}
  /\ committedBy = 0
  /\ lastDelete = NoDelete
  /\ archive = NoArchive
  /\ lastSelect = NoSelect

Init ==
  /\ \E v \in Variants : variant = v /\ library = ShortVideos(v)
  /\ InitWith(library)

RunIds == 1..MaxRuns

Sampling ==
  \/ onDrop
  \/ onFileSelect
  \/ \E r \in RunIds : LoadedMetadata(r)
  \/ \E r \in RunIds : MetadataError(r)
  \/ \E r \in RunIds : MetadataTimeout(r)
  \/ \E r \in RunIds : Seeked(r)
  \/ \E r \in RunIds : AnimationFrame(r)
  \/ \E r \in RunIds : SeekTimeout(r)
  \/ \E r \in RunIds : SeekError(r)
  \/ \E r \in RunIds : BlobReady(r)

\* what an erratic decoder adds
Waiting ==
  \/ \E r \in RunIds : PollTick(r)
  \/ \E r \in RunIds : StalePollTick(r)
  \/ \E r \in RunIds : StaleSeeked(r)

Curation ==
  \/ \E id \in FrameIds(frames) \cup {expandedFrame.id} : toggleFrameSelection(id)
  \/ \E id \in FrameIds(frames) \cup {expandedFrame.id} : deleteFrame(id)
  \/ selectAll
  \/ handleRerun
  \/ RerunTimer
  \/ handleDownload
  \/ DownloadSettled
  \/ \E i \in DOMAIN frames : ExpandFrame(i)
  \/ CloseLightbox
  \/ goToPrev
  \/ goToNext
  \/ \E v \in Rates : setFramepSecond(v)
  \/ setCurrentLang

Next == Sampling \/ Curation

Spec == Init /\ [][Next]_vars

\* Timers fire, paint cycles come and toBlob calls back; nothing obliges the
\* decoder to fire loadedmetadata, seeked or error, or to have data.
FairSpec ==
  /\ Spec
  /\ \A r \in RunIds :
       /\ WF_vars(MetadataTimeout(r))
       /\ WF_vars(SeekTimeout(r))
       /\ WF_vars(AnimationFrame(r))
       /\ WF_vars(BlobReady(r))

\* short videos of which a seek may be answered late or without data
ErraticVideos(v) ==
  CASE v = "index" -> {File((3 * Second) \div 2, "erratic")}
    [] v = "fixed" -> {File(Second \div 5, "erratic")}
    [] v = "rate" -> {File(Second \div 200, "erratic")}

\* The sampling engine alone, on videos of every kind: long ones and ones
\* that report no usable duration (decoded without faults, or not at all),
\* beside the short ones.
LongVideos(v) ==
  {File(d, "healthy") : d \in {600 * Second, Second, Infinity, NaN, 0}}
    \cup {File(600 * Second, "stalled")}
    \cup ShortVideos(v)
    \cup ErraticVideos(v)

SamplingInit ==
  /\ \E v \in Variants : variant = v /\ library = LongVideos(v)
  /\ InitWith(library)

SamplingNext ==
  \/ Sampling
  \/ Waiting
  \/ \E v \in Rates : setFramepSecond(v)
  \/ setCurrentLang

SamplingSpec == SamplingInit /\ [][SamplingNext]_vars

\* The sampling engine on the same videos, followed by the export of what a
\* run committed, all Frames selected or none
ArchiveNext ==
  \/ SamplingNext
  \/ selectAll
  \/ handleDownload
  \/ DownloadSettled

ArchiveSpec == SamplingInit /\ [][ArchiveNext]_vars

\* One upload of a video that decodes without faults, and everything the
\* gallery and the lightbox offer on its Frames but Start Over.  The videos
\* give three Frames; that of the rate variant one Frame at 1 per second and
\* three at 300 per second.
SteadyVideos(v) ==
  CASE v = "index" -> {File(2 * Second, "healthy")}
    [] v = "fixed" -> {File((3 * Second) \div 10, "healthy")}
    [] v = "rate" -> {File(Second \div 100, "healthy")}

GalleryInit ==
  /\ \E v \in Variants : variant = v /\ library = SteadyVideos(v)
  /\ InitWith(library)

GalleryNext ==
  \/ onDrop
  \/ onFileSelect
  \/ \E r \in RunIds : LoadedMetadata(r)
  \/ \E r \in RunIds : Seeked(r)
  \/ \E r \in RunIds : AnimationFrame(r)
  \/ \E r \in RunIds : BlobReady(r)
  \/ \E id \in FrameIds(frames) \cup {expandedFrame.id} : toggleFrameSelection(id)
  \/ \E id \in FrameIds(frames) \cup {expandedFrame.id} : deleteFrame(id)
  \/ selectAll
  \/ handleDownload
  \/ DownloadSettled
  \/ \E i \in DOMAIN frames : ExpandFrame(i)
  \/ CloseLightbox
  \/ goToPrev
  \/ goToNext
  \/ \E v \in Rates : setFramepSecond(v)
  \/ setCurrentLang

GallerySpec == GalleryInit /\ [][GalleryNext]_vars

\* The sampling engine on videos that decode without faults, at every kind
\* of value the Frames per Second input can hold: Number("") is 0, and the
\* min attribute does not keep a negative number from being typed.
PlanRates == {0 - 1, 0, 1, 300}

PlanVideos(v) ==
  {File(d, "healthy") : d \in {600 * Second, 60 * Second, Second, Infinity,
                               NaN, 0}}

PlanInit ==
  /\ \E v \in Variants : variant = v /\ library = PlanVideos(v)
  /\ InitWith(library)

PlanNext ==
  \/ onDrop
  \/ onFileSelect
  \/ \E r \in RunIds : LoadedMetadata(r)
  \/ \E r \in RunIds : Seeked(r)
  \/ \E r \in RunIds : AnimationFrame(r)
  \/ \E r \in RunIds : BlobReady(r)
  \/ \E v \in PlanRates : setFramepSecond(v)
  \/ setCurrentLang

PlanSpec == PlanInit /\ [][PlanNext]_vars

-----------------------------------------------------------------------------
(* Claims *)

\* C1: no Frame that is still in the frame collection has had its display
\* handle revoked; a handle is revoked only for a Frame that has left the
\* collection.  (As claimed; the effect cleanup of index breaks it.)
C1_LiveFramesKeepHandle ==
  \A i \in DOMAIN frames : frames[i].url \notin revoked

\* C2: no display handle is ever passed to URL.revokeObjectURL more than
\* once.  (As claimed; deleteFrame and handleRerun of index break it.)
C2_RevokedAtMostOnce == revokedTwice = {}

\* C3: every Frame that leaves the frame collection has its display handle
\* released: no Frame leaves with its object URL still live.  (As claimed.)
C3_NoFrameLeavesLive == leaked = {}

\* C4: within one sampling run no two Frames have the same id, neither among
\* the Frames a run has accumulated nor in the collection it committed.  (As
\* claimed; the rate variant breaks it for rates above 100 per second.)
IdsUnique(fs) == \A i, j \in DOMAIN fs : i # j => fs[i].id # fs[j].id
C4_IdsUniqueInRun ==
  /\ \A r \in DOMAIN runs : IdsUnique(runs[r].newFrames)
  /\ IdsUnique(frames)

\* C5: deleteFrame(id), for an id present in the collection, shrinks the
\* collection by exactly one Frame and revokes exactly one display handle.
\* (As claimed.)
C5_DeleteRemovesOneRevokesOne ==
  lastDelete.present => lastDelete.removed = 1 /\ lastDelete.revocations = 1

\* C6: a sampling step whose wait ended by the per-step timeout or by a
\* decoder error appends no Frame for its target timestamp.  (As claimed.)
C6_NoFrameAfterTimeoutOrError ==
  \A r \in DOMAIN runs :
    LET fs == runs[r].newFrames
    IN (fs # <<>> /\ fs[Len(fs)].timestamp = runs[r].waitTime)
         => runs[r].waitEnd = "ready"

\* C7: an exception raised inside one sampling step does not end the
\* sampling loop: no run stops after a throw while its next target timestamp
\* is below duration and within the step ceiling.  (As claimed.)
C7_ThrowDoesNotEndLoop ==
  \A r \in DOMAIN runs :
    runs[r].status = "aborted" =>
      ~LoopGuard(variant, Plus(runs[r].currentTime, runs[r].interval),
                 runs[r].duration, runs[r].loopCount)

\* C8: every run started by processVideo eventually ends, also when the
\* decoder never fires loadedmetadata, never fires seeked and never reports
\* an error.  (As claimed; the seek wait of index has no timeout.)
RunDone(r) == r \in DOMAIN runs /\ runs[r].pc = "done"
C8_EveryRunEnds ==
  \A r \in RunIds : [](Active(r) => <>(RunDone(r) /\ ~isProcessing))

\* C9: at every point of a run the number of accumulated Frames, and the
\* number committed, is at most the hard ceiling: MAX_LOOPS (600 rate, 60
\* fixed); for index, which has no step counter, the targetFrameCount its
\* interval rule implies.
FrameCeiling(v) ==
  CASE v = "rate" -> MAX_LOOPS_rate
    [] v = "fixed" -> MAX_LOOPS_fixed
    [] v = "index" -> targetFrameCount
C9_FrameCountWithinCeiling ==
  /\ \A r \in DOMAIN runs : Len(runs[r].newFrames) <= FrameCeiling(variant)
  /\ Len(frames) <= FrameCeiling(variant)

\* C9 witness: a run of the rate variant has committed exactly 600 Frames
C9_Witness ==
  /\ variant = "rate"
  /\ committedBy # 0
  /\ Len(frames) = MAX_LOOPS_rate

\* C10: Frame timestamps are strictly increasing in sequence order and every
\* timestamp t satisfies 0 <= t < duration, duration being the value the run
\* planned with; in every run under way and in the committed sequence.
Ordered(fs, duration) ==
  /\ \A i \in DOMAIN fs : 0 <= fs[i].timestamp /\ fs[i].timestamp < duration
  /\ \A i \in 1..(Len(fs) - 1) : fs[i].timestamp < fs[i + 1].timestamp
C10_TimestampsIncreaseBelowDuration ==
  /\ \A r \in DOMAIN runs : Ordered(runs[r].newFrames, runs[r].duration)
  /\ committedBy # 0 => Ordered(frames, runs[committedBy].duration)

\* C10 witness: a run has committed at least two Frames
C10_Witness == committedBy # 0 /\ Len(frames) >= 2

\* C11: within one run the successive values processVideo hands to
\* setProgress never decrease (0 at the start, the step values, 100 in the
\* finally block), for every duration and interval.
C11_ProgressNeverDecreases ==
  [][\A r \in DOMAIN runs : runs'[r].progress >= runs[r].progress]_vars

\* C11 witness: a run planned with the 1-second fallback is in its second
\* step or later and has reported progress above 0
C11_Witness ==
  \E r \in DOMAIN runs :
    /\ runs[r].file.duration = NaN
    /\ runs[r].pc = "seekWait"
    /\ runs[r].loopCount >= 2
    /\ runs[r].progress > 0

\* C12: progress is an integer in [0,100]; it is at most 99 as long as a
\* sampling step of any run is executing, and it is 100 only when a run has
\* committed its frame sequence and released its decode resources.  (As
\* claimed.)
Sampling_InStep(r) == Active(r) /\ runs[r].pc \in {"seekWait", "encodeWait"}
C12_HundredOnlyAfterCommit ==
  /\ progress \in 0..100
  /\ (\E r \in DOMAIN runs : Sampling_InStep(r)) => progress <= 99
  /\ progress = 100 => committedBy # 0 /\ RunDone(committedBy)

\* C13: the archive entry names handleDownload generates are, in
\* lexicographic order of their characters, in the order of their numeric
\* indices, for every number of selected Frames a run can produce.  (As
\* claimed; two digits do not hold the 600 Frames of the rate variant.)
RECURSIVE LexLess(_, _)
LexLess(a, b) ==
  IF a = <<>> THEN b # <<>>
  ELSE IF b = <<>> THEN FALSE
  ELSE IF Head(a) # Head(b) THEN Head(a) < Head(b)
  ELSE LexLess(Tail(a), Tail(b))
C13_NamesSortLikeIndices ==
  \A i \in 1..(Len(archive.entries) - 1) :
    LexLess(archive.entries[i].name, archive.entries[i + 1].name)

\* C14: the archive handleDownload fills holds exactly one entry per Frame
\* selected when the export starts, and none for another; the k-th entry is
\* named by the 1-based index k (two digits, zero-padded) and carries the
\* blob of the k-th selected Frame in the collection's order.
RECURSIVE ParseDecimal(_)
ParseDecimal(str) ==
  IF str = <<>> THEN 0
  ELSE 10 * ParseDecimal(SubSeq(str, 1, Len(str) - 1)) + (str[Len(str)] - Zero)
C14_OneEntryPerSelectedFrame ==
  archive.outcome = "pending" =>
    LET src == archive.source
        sel == {i \in DOMAIN src : src[i].selected}
        entries == archive.entries
    IN /\ Len(entries) = Cardinality(sel)
       /\ \A k \in DOMAIN entries :
            LET name == entries[k].name
            IN /\ name[Len(name)] = Dot
               /\ ParseDecimal(SubSeq(name, 1, Len(name) - 1)) = k
               /\ k < 100 => Len(name) = 3
               /\ \E i \in sel :
                    /\ Cardinality({j \in sel : j <= i}) = k
                    /\ entries[k].blob = src[i].blob

\* C14 witness: an export is under way of a collection whose first Frame is
\* not selected and two later ones are
C14_Witness ==
  /\ archive.outcome = "pending"
  /\ Len(archive.source) = 3
  /\ ~archive.source[1].selected
  /\ Len(archive.entries) = 2

\* C15: when archive generation fails no archive object URL is created and no
\* download is triggered, the failure is reported, the frame collection is
\* as it was and isZipping is false again.
C15_FailedExportExposesNothing ==
  [][(archive.outcome = "pending" /\ archive'.outcome = "failed")
       => /\ ~archive'.urlCreated
          /\ ~archive'.clicked
          /\ archive'.reported
          /\ frames' = frames
          /\ ~isZipping']_vars

\* C15 witness: an export has failed
C15_Witness == archive.outcome = "failed" /\ frames # <<>>

\* C16: at most one sampling run is in flight and at most one export is in
\* flight, whatever uploads, deletions, start-over requests, export requests
\* and timer callbacks interleave.  (As claimed.)
RunsInFlight == {r \in DOMAIN runs : Active(r)}
C16_OneRunOneExport ==
  /\ Cardinality(RunsInFlight) <= 1
  /\ archive.pending <= 1

\* C17: handleRerun never executes while a sampling run is in flight, so a
\* run in flight always has the video file it was started with in place, and
\* no run commits Frames into a session that has been reset (Frames on
\* display without a video file).  (As claimed.)
C17_NoDiscardDuringRun ==
  /\ RunsInFlight # {} => videoFile # NoFile
  /\ frames # <<>> => videoFile # NoFile

\* C18: deleting the last remaining Frame yields the run-exhausted
\* condition: from then until the session is torn down the collection is
\* empty, no display handle of it is live, and the callback that signals the
\* user and discards the run is scheduled.  (As claimed; index only removes
\* the Frame.)
C18_LastDeleteTearsDown ==
  lastDelete.emptied =>
    /\ rerunTimers > 0
    /\ frames = <<>>
    /\ leaked = {}

\* C19: when the focused Frame is deleted and Frames remain, the focus moves
\* to the Frame that stood after it, or to the one before it when it was the
\* last; when none remains the focus is cleared; deleting another Frame
\* leaves the focus as it was.  (As claimed.)
C19_FocusAfterDelete ==
  lastDelete.present /\ lastDelete.focusLive =>
    lastDelete.focusAfter =
      IF ~lastDelete.focused THEN lastDelete.focusBefore
      ELSE IF lastDelete.left = 0 THEN NoFrame.url
      ELSE IF lastDelete.following # NoFrame.url THEN lastDelete.following
      ELSE lastDelete.preceding

\* C20: toggleFrameSelection(id) flips selected on exactly one Frame when the
\* id is in the collection and on none when it is not; toggle and selectAll
\* leave the order, the membership, the blobs and the display handles of the
\* collection as they were.  (As claimed.)
C20_ToggleFlipsOne ==
  /\ lastSelect.intact
  /\ lastSelect.kind = "toggle" =>
       lastSelect.flipped = IF lastSelect.known THEN 1 ELSE 0

\* C21: the interval a run of the rate variant plans with is
\* max(1/rate, duration/600) exactly when the configured rate is a positive
\* number, and the fallback max(0.1, duration/30) for every other rate (zero,
\* negative).  (As claimed; `framepSecond > 0 || framepSecond` lets every
\* nonzero rate through.)
C21_IntervalByRate ==
  \A r \in DOMAIN runs :
    (variant = "rate" /\ Active(r) /\ runs[r].pc # "loading") =>
      runs[r].interval =
        IF runs[r].rate > 0
          THEN Max(Second \div runs[r].rate, runs[r].duration \div 600)
          ELSE Max(Second \div 10, runs[r].duration \div 30)

\* C22: for every duration a run of the rate or fixed variant plans with and
\* every configured rate, the interval is above 0 and the target timestamps
\* startOffset + k * interval below duration are at most MAX_LOOPS many; so
\* when the last step the ceiling allows is under way, the next target is
\* not below duration: the loop leaves through the time condition.
TargetCount(start, interval, duration) ==
  IF start >= duration THEN 0
  ELSE (duration - start + interval - 1) \div interval
C22_CeilingNeverTruncates ==
  \A r \in DOMAIN runs :
    (variant # "index" /\ Active(r) /\ runs[r].pc # "loading") =>
      /\ runs[r].interval > 0
      /\ TargetCount(StartOffset(variant, runs[r].duration), runs[r].interval,
                     runs[r].duration) <= MaxLoops(variant)
      /\ runs[r].loopCount <= MaxLoops(variant)
      /\ runs[r].loopCount = MaxLoops(variant) =>
           Plus(runs[r].currentTime, runs[r].interval) >= runs[r].duration

\* C22 witness: a run of the rate variant over a 600 s video, at a rate that
\* lets duration/600 decide the interval, is in the 600th and last step
C22_Witness ==
  \E r \in DOMAIN runs :
    /\ variant = "rate"
    /\ Active(r)
    /\ runs[r].duration = 600 * Second
    /\ runs[r].rate = 300
    /\ runs[r].loopCount = MAX_LOOPS_rate
    /\ runs[r].pc = "encodeWait"

\* C23: when the decode source reports a duration that is infinite, NaN,
\* zero or negative, the run plans with a duration of 1 second, and its
\* steps stay within the step ceiling.  (As claimed; `video.duration || 1`
\* of index keeps Infinity.)
C23_UnusableDurationIsOneSecond ==
  \A r \in DOMAIN runs :
    (/\ Active(r) /\ runs[r].pc # "loading"
     /\ \/ runs[r].file.duration = Infinity
        \/ runs[r].file.duration = NaN
        \/ runs[r].file.duration <= 0) =>
      /\ runs[r].duration = Second
      /\ variant # "index" => runs[r].loopCount <= MaxLoops(variant)

\* C24: when the metadata wait of a run times out or errors, or the canvas
\* 2D context cannot be created, the run has executed no sampling step and
\* created no display handle, the frame collection is empty and isProcessing
\* is false when it returns.  (As claimed.)
C24_LoadFailureLeavesNothing ==
  [][\A r \in DOMAIN runs :
       (runs[r].pc = "loading" /\ runs'[r].status = "failed") =>
         /\ runs[r].loopCount = 0
         /\ runs[r].newFrames = <<>>
         /\ runs'[r].pc = "done"
         /\ frames' = <<>>
         /\ ~isProcessing']_vars

\* C25: the 50 ms re-poll of a step stops once data is available or the
\* per-step timeout has elapsed: no poll callback of a step is pending or
\* runs after that step's wait has ended or after the run is finalized.  (As
\* claimed.)
C25_NoPollAfterWait == \A r \in DOMAIN runs : runs[r].stalePolls = 0

\* C26: a seeked notification of the seek of an earlier step, whose wait
\* ended by timeout, never completes the wait of a later step.  (As claimed.)
C26_SeekedForOwnTarget == \A r \in DOMAIN runs : ~runs[r].staleWait

\* C27: in the rate and fixed variants the per-step timeout stays armed as
\* long as the wait of a step has not ended, also after seeked has fired and
\* the two requestAnimationFrame callbacks are awaited.  (As claimed.)
C27_TimeoutArmedUntilResolved ==
  \A r \in DOMAIN runs :
    (variant # "index" /\ Active(r) /\ runs[r].pc = "seekWait") =>
      runs[r].timeoutArmed

\* C28: on every exit path of processVideo (metadata failure, canvas
\* failure, completion, exception inside the loop) the object URL created
\* for the source video has been revoked exactly once and the video element
\* is out of the document.  (As claimed.)
C28_SourceReleasedOnEveryExit ==
  \A r \in DOMAIN runs :
    /\ runs[r].srcRevoked <= 1
    /\ runs[r].pc = "done" => runs[r].srcRevoked = 1 /\ ~runs[r].attached

\* C29: the rate a run plans with is the value the Frames per Second input
\* holds at the moment of the upload, by drag-and-drop as by the file picker,
\* also after the rate has been changed.  (As claimed; onDrop is memoized on
\* [t] alone.)
C29_RunPlansWithCurrentRate ==
  [][Len(runs') > Len(runs) => runs'[Len(runs')].rate = framepSecond]_vars

\* C30: whenever a Frame is focused (expandedFrame is not null) a Frame with
\* that id is in the collection, with a live display handle and with the
\* selected value of the focused copy.  (As claimed.)
C30_FocusIsInCollection ==
  expandedFrame # NoFrame =>
    \E i \in DOMAIN frames :
      /\ frames[i].id = expandedFrame.id
      /\ frames[i].url \notin revoked
      /\ frames[i].selected = expandedFrame.selected

====
